---- MODULE Spec2Model ----
(***************************************************************************)
(* A model of gradio/networking.py: the template renderer, the port        *)
(* allocator and the prediction HTTP server (HTTPHandler.do_POST).         *)
(*                                                                         *)
(* Strings the program computes on (templates, tags) are sequences of      *)
(* one-character strings.  Values that only pass through the server (the   *)
(* request data, what the injected interface returns) are terms: a         *)
(* collaborator f applied to x is the tuple <<"f", x>>, so that no two     *)
(* different call chains ever produce the same value.                      *)
(***************************************************************************)
EXTENDS Integers, Sequences, FiniteSets, TLC

\* The number of requests one behaviour of the server handles.
MaxRequests == 2
\* The number of ports of the scan window (TRY_NUM_PORTS is 100).
MaxPorts == 3
\* The number of pieces a template text is put together from.
MaxSegments == 3
\* The number of lines of a list given to the renderer.
MaxLines == 2
\* The number of times the renderer is applied to its own output.
MaxRenders == 2
\* The number of servers start_simple_server starts.
MaxStarts == 2
\* The number of pieces the config file is put together from.
MaxConfigSegments == 3
\* The number of rendering passes over the config file.
MaxPasses == 3

VARIABLES
    saliency_declared,  \* interface.saliency is not None
    flag_dir_exists,    \* <directory_to_serve>/static/flagged/ exists
    flag_file_exists,   \* static/flagged/data.txt exists
    flag_file,          \* what has been written to data.txt, write by write
    pc,                 \* where the handler of the current request stands
    request,            \* the request being handled: [path, body]
    frame,              \* do_POST's local variables
    response,           \* what has been sent to the client of the request
    calls,              \* the collaborator calls of the current request, in order
    fs_at_accept,       \* the flag directory and log when the request was accepted
    served,             \* the requests handled so far, with their outcome
    occupied,           \* the ports other processes have bound
    probe_sockets,      \* the ports bound by probe sockets this process holds open
    servers,            \* the ports bound by this process's HTTPServer objects
    threads,            \* the number of background threads started
    handles,            \* the HTTPServer objects made so far, open or closed
    gp_args,            \* the range the caller of get_first_available_port asks for
    gp_pc,              \* where the running call of the port allocator stands
    gp,                 \* its caller, arguments, loop variable and probes so far
    gp_result,          \* <<port>> once it has returned a port, <<>> otherwise
    gp_error,           \* the message of the OSError it raised, "" otherwise
    gp_prev,            \* <<the call that ended last, with its result>>
    started,            \* what start_simple_server returned: <<port, httpd>>
    r_text,             \* the string or list the caller starts from
    r_input,            \* the argument of the last render_string_or_list_with_tags
    r_context,          \* its context: the (key, value) items in dict order
    r_output,           \* what it returned
    r_count,            \* the calls so far, each on the output of the one before
    config_orig,        \* static/config.json as the build copied it
    config_file,        \* static/config.json now
    config_values,      \* the interface types and the share url
    config_passes,      \* the rendering passes made over the file, in order
    httpd,              \* the HTTPServer: its socket, __shutdown_request, __is_shut_down
    thread_pc,          \* where the background thread of serve_forever stands
    closer_pc,          \* where the caller of close_server stands
    accepted_at,        \* for each connection accepted, where the caller stood
    entered_at,         \* for each entry into httpd.serve_forever(), where the caller stood
    closed_at,          \* <<where the handler stood when server_close ran>>
    tn_env,             \* setup_tunnel's argument and what broker and tunnel will do
    tn_pc,              \* where the call of setup_tunnel stands
    tn_response,        \* what url_request returned
    tn_result,          \* <<what setup_tunnel returned>>
    tn_error            \* <<the exception setup_tunnel raised>>

render_vars == <<r_text, r_input, r_context, r_output, r_count>>

config_vars == <<config_orig, config_file, config_values, config_passes>>

life_vars == <<httpd, thread_pc, closer_pc, accepted_at, entered_at, closed_at>>

tunnel_vars == <<tn_env, tn_pc, tn_response, tn_result, tn_error>>

not_server == <<occupied, probe_sockets, servers, threads, handles, gp_args, gp_pc, gp, gp_result,
                gp_error, gp_prev, started, render_vars, config_vars, life_vars,
                tunnel_vars>>

not_port == <<saliency_declared, flag_dir_exists, flag_file_exists, flag_file,
              pc, request, frame, response, calls, fs_at_accept, served,
              render_vars, config_vars, life_vars, tunnel_vars>>

server_vars == <<saliency_declared, flag_dir_exists, flag_file_exists, flag_file,
                 pc, request, frame, response, calls, fs_at_accept, served>>

port_vars == <<occupied, probe_sockets, servers, threads, handles, gp_args, gp_pc, gp, gp_result,
               gp_error, gp_prev, started>>

----------------------------------------------------------------------------
(* Constants of networking.py *)

LOCALHOST_NAME == "localhost"
FLAGGING_DIRECTORY == "static/flagged/"
FLAGGING_FILENAME == "data.txt"

(* The four API routes of do_POST, as the strings self.path is compared to. *)
PREDICT_PATH == "/api/predict/"
FLAG_PATH == "/api/flag/"
ROTATION_PATH == "/api/auto/rotation"
LIGHTING_PATH == "/api/auto/lighting"

ApiPaths == {PREDICT_PATH, FLAG_PATH, ROTATION_PATH, LIGHTING_PATH}

(* Other paths a client may post to: a route without its trailing slash,    *)
(* and an unrelated path.                                                   *)
OtherPaths == {"/api/predict", "/other"}

Paths == ApiPaths \cup OtherPaths

----------------------------------------------------------------------------
(* Request bodies *)

RawVals == {"r0"}
Messages == {"m1"}
Images == {"imgA"}

(* The value under the body's "data" key:                                  *)
(*   raw      a value that is neither a dict nor an encoded image          *)
(*   flagged  a dict with a "message" key, val is the message              *)
(*   nomsg    a dict without a "message" key                               *)
(*   image    a base64-encoded image                                       *)
Data == ({"raw"} \X RawVals)
          \cup ({"flagged"} \X Messages)
          \cup ({"nomsg"} \X {""})
          \cup ({"image"} \X Images)

NoData == <<"none", "">>

kind(d) == d[1]
val(d) == d[2]

(* A body: whether the request carries a Content-Length header, whether    *)
(* the bytes are JSON, whether the JSON object has a "data" key, and the   *)
(* value under it.                                                         *)
Bodies == {[length |-> FALSE, json |-> FALSE, has_data |-> FALSE, data |-> NoData],
           [length |-> TRUE, json |-> FALSE, has_data |-> FALSE, data |-> NoData],
           [length |-> TRUE, json |-> TRUE, has_data |-> FALSE, data |-> NoData]}
            \cup {[length |-> TRUE, json |-> TRUE, has_data |-> TRUE, data |-> d] : d \in Data}

(* The body of a request to a path that is no route is never read: one     *)
(* body stands for all of them.                                             *)
Requests == [path : ApiPaths, body : Bodies]
              \cup [path : OtherPaths,
                    body : {[length |-> TRUE, json |-> TRUE, has_data |-> TRUE,
                             data |-> <<"raw", "r0">>]}]

(* self.rfile.read(int(self.headers["Content-Length"])) and json.loads:    *)
(* int(None) raises TypeError, json.loads raises on bytes that are no JSON. *)
BodyParses(body) == body.length /\ body.json

(* msg, the parsed body: a dict with or without the "data" key. *)
json_loads(body) == <<"msg", body.has_data, body.data>>

has_data(msg) == msg[2]
data_of(msg) == msg[3]

(* json.dumps(x): the serialised text of x, one write to a file or socket. *)
json_dumps(x) == <<"json", x>>

(* The value a serialised text parses back to. *)
json_parse(s) == s[2]

NEWLINE == <<"\n">>

EmptyDict == [k \in {} |-> ""]

----------------------------------------------------------------------------
(* The injected interface and the image helpers.  They are collaborators    *)
(* of the server, called and never looked into: f(x) is the term <<"f", x>>. *)

DIRECTORY_TO_SERVE == "<directory_to_serve>/"

preprocess(x) == <<"preprocess", x>>
predict(x) == <<"predict", x>>
postprocess(x) == <<"postprocess", x>>
saliency(model_obj, processed_input, prediction) ==
    <<"saliency", model_obj, processed_input, prediction>>
tolist(a) == <<"tolist", a>>
input_rebuild_flagged(dir, msg) == <<"input_interface.rebuild_flagged", dir, msg>>
output_rebuild_flagged(dir, msg) == <<"output_interface.rebuild_flagged", dir, msg>>
save_to_file(dir, img) == <<"input_interface.save_to_file", dir, img>>

(* preprocessing_utils.decode_base64_to_image raises on a value that is no  *)
(* encoded image.                                                           *)
IsEncodedImage(d) == kind(d) = "image"
decode_base64_to_image(d) == <<"decode_base64_to_image", val(d)>>
convert_RGB(img) == <<"convert", "RGB", img>>
resize_224(img) == <<"resize", 224, 224, img>>
rotate(img, deg) == <<"rotate", deg, img>>
(* ImageEnhance.Brightness(img).enhance(num / den) *)
enhance(img, num, den) == <<"enhance", num, den, img>>
(* np.expand_dims(np.array(img) / 127.5 - 1, axis=0) *)
as_model_input(img) == <<"expand_dims", <<"normalize", img>>>>

(* os.path.join(directory_to_serve, FLAGGING_DIRECTORY) *)
flag_dir == DIRECTORY_TO_SERVE \o FLAGGING_DIRECTORY

----------------------------------------------------------------------------
(* The request handler *)

NoResponse == [status |-> 0, content_type |-> "", body |-> <<>>]

(* HTTPHandler._set_headers: the status line and the headers go out at once. *)
set_headers(r) == [r EXCEPT !.status = 200, !.content_type = "application/json"]

(* self.wfile.write(bytes) *)
wfile_write(r, bytes) == [r EXCEPT !.body = Append(@, bytes)]

(* self.send_error(404, 'Path not found: %s' % self.path) *)
send_error(r, code, message) ==
    [r EXCEPT !.status = code, !.content_type = "text/html",
              !.body = Append(@, <<"error", code, message>>)]

EmptyFrame == [msg |-> <<>>, processed_input |-> <<>>, prediction |-> <<>>,
               processed_output |-> <<>>, output |-> EmptyDict, img_orig |-> <<>>,
               img |-> <<>>, step |-> 0, flagged_input |-> <<>>]

(* The handler returns, or an exception leaves it: socketserver catches it  *)
(* (handle_error), closes the connection and goes on serving.               *)
Return(outcome) ==
    /\ pc' = "idle"
    /\ frame' = EmptyFrame
    /\ served' = Append(served, [request |-> request, outcome |-> outcome])

(* output = {"action": "output", "data": processed_output} *)
predict_output_listed(processed_output) ==
    [action |-> "output", data |-> <<processed_output>>]
predict_output(processed_output) == [action |-> "output", data |-> processed_output]

(* A variant that opens the log with 'w'. *)
append_record_truncating(file, output) == <<json_dumps(output), NEWLINE>>
(* A variant that skips a record the log already holds. *)
append_record_once(file, output) ==
    IF \E i \in 1..Len(file) : file[i] = json_dumps(output)
      THEN file
      ELSE file \o <<json_dumps(output), NEWLINE>>
(* with open(os.path.join(flag_dir, FLAGGING_FILENAME), 'a+') as f:         *)
(*     f.write(json.dumps(output)); f.write("\n")                           *)
append_record(file, output) == file \o <<json_dumps(output), NEWLINE>>

(* A variant that ignores a trailing slash. *)
is_route_lenient(path, route) == path = route \/ path \o "/" = route
(* self.path == "<route>" *)
is_route(path, route) == path = route

(* A variant that accepts a connection while a handler is running. *)
AcceptWhileHandling(reqs) ==
    /\ Len(served) < MaxRequests
    /\ \E req \in reqs : request' = req
    /\ pc' = "do_POST"
    /\ response' = NoResponse
    /\ calls' = <<>>
    /\ fs_at_accept' = [dir |-> flag_dir_exists, file |-> flag_file_exists,
                        content |-> flag_file]
    /\ UNCHANGED <<saliency_declared, flag_dir_exists, flag_file_exists, flag_file,
                   frame, served>>
(* A connection is accepted and do_POST called for its request, one of reqs. *)
AcceptOneOf(reqs) ==
    /\ pc = "idle"
    /\ Len(served) < MaxRequests
    /\ \E req \in reqs : request' = req
    /\ pc' = "do_POST"
    /\ response' = NoResponse
    /\ calls' = <<>>
    /\ fs_at_accept' = [dir |-> flag_dir_exists, file |-> flag_file_exists,
                        content |-> flag_file]
    /\ UNCHANGED <<saliency_declared, flag_dir_exists, flag_file_exists, flag_file,
                   frame, served>>

(* The server accepts a connection and calls do_POST for its request. *)
Accept ==
    /\ AcceptOneOf(Requests)
    /\ UNCHANGED not_server

fs_vars == <<flag_dir_exists, flag_file_exists, flag_file>>

(* /api/predict/, to the return of preprocess. *)
PredictPreprocess ==
    /\ pc = "do_POST"
    /\ is_route(request.path, PREDICT_PATH)
    /\ response' = set_headers(response)
    /\ IF BodyParses(request.body) /\ request.body.has_data
         THEN LET msg == json_loads(request.body) IN
              \E raises \in BOOLEAN :
                /\ calls' = Append(calls, <<"preprocess", data_of(msg)>>)
                /\ IF raises
                     THEN Return("exception")
                     ELSE /\ pc' = "predict_169"
                          /\ frame' = [frame EXCEPT !.msg = msg,
                                         !.processed_input = preprocess(data_of(msg))]
                          /\ UNCHANGED served
         ELSE /\ Return("exception")
              /\ UNCHANGED calls
    /\ UNCHANGED <<not_server, saliency_declared, fs_vars, request, fs_at_accept>>

PredictPredict ==
    /\ pc = "predict_169"
    /\ \E raises \in BOOLEAN :
         /\ calls' = Append(calls, <<"predict", frame.processed_input>>)
         /\ IF raises
              THEN Return("exception")
              ELSE /\ pc' = "predict_170"
                   /\ frame' = [frame EXCEPT !.prediction = predict(frame.processed_input)]
                   /\ UNCHANGED served
    /\ UNCHANGED <<not_server, saliency_declared, fs_vars, request, response, fs_at_accept>>

PredictPostprocess ==
    /\ pc = "predict_170"
    /\ \E raises \in BOOLEAN :
         /\ calls' = Append(calls, <<"postprocess", frame.prediction>>)
         /\ IF raises
              THEN Return("exception")
              ELSE LET processed_output == postprocess(frame.prediction) IN
                   /\ pc' = "predict_172"
                   /\ frame' = [frame EXCEPT !.processed_output = processed_output,
                                  !.output = predict_output(processed_output)]
                   /\ UNCHANGED served
    /\ UNCHANGED <<not_server, saliency_declared, fs_vars, request, response, fs_at_accept>>

(* A variant that takes the saliency of the post-processed output. *)
output_saliency_of_output(f) ==
    tolist(saliency("model_obj", f.processed_input, f.processed_output))
(* saliency = interface.saliency(interface.model_obj, processed_input,      *)
(* prediction); output['saliency'] = saliency.tolist()                      *)
output_saliency(f) == tolist(saliency("model_obj", f.processed_input, f.prediction))

(* The saliency of the interfaces that declare one, then the response. *)
PredictRespond ==
    /\ pc = "predict_172"
    /\ IF saliency_declared
         THEN \E raises \in BOOLEAN :
                /\ calls' = Append(calls, <<"saliency", frame.processed_input, frame.prediction>>)
                /\ IF raises
                     THEN /\ Return("exception")
                          /\ UNCHANGED response
                     ELSE LET output == [action |-> frame.output.action,
                                         data |-> frame.output.data,
                                         saliency |-> output_saliency(frame)]
                          IN /\ response' = wfile_write(response, json_dumps(output))
                             /\ Return("ok")
         ELSE /\ response' = wfile_write(response, json_dumps(frame.output))
              /\ Return("ok")
              /\ UNCHANGED calls
    /\ UNCHANGED <<not_server, saliency_declared, fs_vars, request, fs_at_accept>>

(* /api/flag/, to the return of input_interface.rebuild_flagged. *)
FlagRebuildInput ==
    /\ pc = "do_POST"
    /\ is_route(request.path, FLAG_PATH)
    /\ response' = set_headers(response)
    /\ IF BodyParses(request.body)
         THEN LET msg == json_loads(request.body) IN
              \E raises \in BOOLEAN :
                /\ flag_dir_exists' = TRUE
                /\ calls' = Append(calls, <<"input_interface.rebuild_flagged", flag_dir, msg>>)
                /\ IF raises
                     THEN Return("exception")
                     ELSE /\ pc' = "flag_187"
                          /\ frame' = [frame EXCEPT !.msg = msg,
                                         !.flagged_input = input_rebuild_flagged(flag_dir, msg)]
                          /\ UNCHANGED served
         ELSE /\ Return("exception")
              /\ UNCHANGED <<calls, flag_dir_exists>>
    /\ UNCHANGED <<not_server, saliency_declared, flag_file_exists, flag_file, request, fs_at_accept>>

(* output_interface.rebuild_flagged, msg['data']['message'] and the append. *)
FlagAppend ==
    /\ pc = "flag_187"
    /\ \E raises \in BOOLEAN :
         /\ calls' = Append(calls, <<"output_interface.rebuild_flagged", flag_dir, frame.msg>>)
         /\ IF ~raises /\ has_data(frame.msg) /\ kind(data_of(frame.msg)) = "flagged"
              THEN LET output == [input |-> frame.flagged_input,
                                  output |-> output_rebuild_flagged(flag_dir, frame.msg),
                                  message |-> val(data_of(frame.msg))]
                   IN /\ flag_file' = append_record(flag_file, output)
                      /\ flag_file_exists' = TRUE
                      /\ Return("ok")
              ELSE /\ Return("exception")
                   /\ UNCHANGED <<flag_file, flag_file_exists>>
    /\ UNCHANGED <<not_server, saliency_declared, flag_dir_exists, request, response, fs_at_accept>>

(* The image of an auto route: headers, body, msg["data"], decode, RGB,     *)
(* 224 x 224, and the flag directory.                                       *)
DecodeImage(next_pc, first_step) ==
    /\ response' = set_headers(response)
    /\ IF /\ BodyParses(request.body)
          /\ request.body.has_data
          /\ IsEncodedImage(request.body.data)
         THEN LET msg == json_loads(request.body) IN
              /\ flag_dir_exists' = TRUE
              /\ pc' = next_pc
              /\ frame' = [frame EXCEPT !.msg = msg, !.step = first_step,
                             !.img_orig = resize_224(convert_RGB(
                                              decode_base64_to_image(data_of(msg))))]
              /\ UNCHANGED served
         ELSE /\ Return("exception")
              /\ UNCHANGED flag_dir_exists
    /\ UNCHANGED <<not_server, saliency_declared, flag_file_exists, flag_file, request, calls,
                   fs_at_accept>>

(* One call of the loop body of an auto route: predict, postprocess and    *)
(* save_to_file; each may raise.                                            *)
AutoPredict(at, next_pc, img) ==
    /\ pc = at
    /\ \E raises \in BOOLEAN :
         /\ calls' = Append(calls, <<"predict", as_model_input(img)>>)
         /\ IF raises
              THEN Return("exception")
              ELSE /\ pc' = next_pc
                   /\ frame' = [frame EXCEPT !.img = img,
                                  !.prediction = predict(as_model_input(img))]
                   /\ UNCHANGED served
    /\ UNCHANGED <<not_server, saliency_declared, fs_vars, request, response, fs_at_accept>>

AutoPostprocess(at, next_pc) ==
    /\ pc = at
    /\ \E raises \in BOOLEAN :
         /\ calls' = Append(calls, <<"postprocess", frame.prediction>>)
         /\ IF raises
              THEN Return("exception")
              ELSE /\ pc' = next_pc
                   /\ frame' = [frame EXCEPT !.processed_output = postprocess(frame.prediction)]
                   /\ UNCHANGED served
    /\ UNCHANGED <<not_server, saliency_declared, fs_vars, request, response, fs_at_accept>>

AutoSave(at, next_pc) ==
    /\ pc = at
    /\ \E raises \in BOOLEAN :
         /\ calls' = Append(calls, <<"input_interface.save_to_file", flag_dir, frame.img>>)
         /\ IF raises
              THEN Return("exception")
              ELSE /\ pc' = next_pc
                   /\ frame' = [frame EXCEPT !.flagged_input = save_to_file(flag_dir, frame.img)]
                   /\ UNCHANGED served
    /\ UNCHANGED <<not_server, saliency_declared, fs_vars, request, response, fs_at_accept>>

(* output_interface.rebuild_flagged(flag_dir, {'data': {'output': ...}}),   *)
(* the append of the step's record, and the loop's next step.               *)
AutoAppend(at, message, next_step, more, loop_pc, exit_pc) ==
    /\ pc = at
    /\ LET arg == <<"msg", TRUE, <<"output", frame.processed_output>>>> IN
       \E raises \in BOOLEAN :
         /\ calls' = Append(calls, <<"output_interface.rebuild_flagged", flag_dir, arg>>)
         /\ IF raises
              THEN /\ Return("exception")
                   /\ UNCHANGED <<flag_file, flag_file_exists>>
              ELSE LET output == [input |-> frame.flagged_input,
                                  output |-> output_rebuild_flagged(flag_dir, arg),
                                  message |-> message]
                   IN /\ flag_file' = append_record(flag_file, output)
                      /\ flag_file_exists' = TRUE
                      /\ pc' = IF more THEN loop_pc ELSE exit_pc
                      /\ frame' = [frame EXCEPT !.step = next_step]
                      /\ UNCHANGED served
    /\ UNCHANGED <<not_server, saliency_declared, flag_dir_exists, request, response, fs_at_accept>>

(* self.wfile.write(json.dumps({}).encode()) *)
AutoWrite(at) ==
    /\ pc = at
    /\ response' = wfile_write(response, json_dumps(EmptyDict))
    /\ Return("ok")
    /\ UNCHANGED <<not_server, saliency_declared, fs_vars, request, calls, fs_at_accept>>

(* A variant that stops before 180. *)
ROTATION_RANGE_to_180 == [start |-> -180, stop |-> 180, step |-> 45]
(* for deg in range(-180, 180+45, 45) *)
ROTATION_RANGE == [start |-> -180, stop |-> 180 + 45, step |-> 45]
(* for i in range(9) *)
LIGHTING_RANGE == [start |-> 0, stop |-> 9, step |-> 1]

rotation_message(deg) == "rotation by " \o ToString(deg) \o " degrees"
(* A variant that reports the brightness factor i/4. *)
lighting_message_factor(i) ==
    "brighting adjustment by a factor of " \o ToString(i) \o "/4"
lighting_message(i) == "brighting adjustment by a factor of " \o ToString(i)

(* /api/auto/rotation *)
RotationDecode ==
    /\ pc = "do_POST"
    /\ is_route(request.path, ROTATION_PATH)
    /\ DecodeImage("rotation_209", ROTATION_RANGE.start)

RotationPredict ==
    AutoPredict("rotation_209", "rotation_212", rotate(frame.img_orig, frame.step))

RotationPostprocess == AutoPostprocess("rotation_212", "rotation_213")

RotationSave == AutoSave("rotation_213", "rotation_214")

RotationAppend ==
    AutoAppend("rotation_214", rotation_message(frame.step),
               frame.step + ROTATION_RANGE.step,
               frame.step + ROTATION_RANGE.step < ROTATION_RANGE.stop,
               "rotation_209", "rotation_223")

RotationWrite == AutoWrite("rotation_223")

(* /api/auto/lighting *)
LightingDecode ==
    /\ pc = "do_POST"
    /\ is_route(request.path, LIGHTING_PATH)
    /\ DecodeImage("lighting_242", LIGHTING_RANGE.start)

LightingPredict ==
    AutoPredict("lighting_242", "lighting_245", enhance(frame.img_orig, frame.step, 4))

LightingPostprocess == AutoPostprocess("lighting_245", "lighting_246")

LightingSave == AutoSave("lighting_246", "lighting_247")

LightingAppend ==
    AutoAppend("lighting_247", lighting_message(frame.step),
               frame.step + LIGHTING_RANGE.step,
               frame.step + LIGHTING_RANGE.step < LIGHTING_RANGE.stop,
               "lighting_242", "lighting_256")

LightingWrite == AutoWrite("lighting_256")

(* Any other path. *)
NotFound ==
    /\ pc = "do_POST"
    /\ \A route \in ApiPaths : ~is_route(request.path, route)
    /\ response' = send_error(response, 404, "Path not found: " \o request.path)
    /\ Return("ok")
    /\ UNCHANGED <<not_server, saliency_declared, fs_vars, request, calls, fs_at_accept>>

do_POST ==
    \/ PredictPreprocess \/ PredictPredict \/ PredictPostprocess \/ PredictRespond
    \/ FlagRebuildInput \/ FlagAppend
    \/ RotationDecode \/ RotationPredict \/ RotationPostprocess \/ RotationSave
    \/ RotationAppend \/ RotationWrite
    \/ LightingDecode \/ LightingPredict \/ LightingPostprocess \/ LightingSave
    \/ LightingAppend \/ LightingWrite
    \/ NotFound

----------------------------------------------------------------------------
(* The server's life: the background thread of serve_files_in_background    *)
(* and the caller of close_server.  httpd.serve_forever(), shutdown() and   *)
(* server_close() are socketserver.BaseServer's.                            *)

(* httpd = HTTPServer(directory_to_serve, (LOCALHOST_NAME, port)): the      *)
(* socket is bound and listening, __shutdown_request is False and the event *)
(* __is_shut_down is not set.                                               *)
NewServer == [socket |-> "listening", shutdown_request |-> FALSE, is_shut_down |-> FALSE]

not_life == <<port_vars, render_vars, config_vars, tunnel_vars>>

(* The requests the clients of this server send: to a path that is no      *)
(* route, with a body that is no JSON, and to /api/predict/ and /api/flag/  *)
(* with data that is no image.                                              *)
LifeRequests ==
    {r \in Requests :
        \/ r.path \notin ApiPaths
        \/ r.body.length /\ ~r.body.json
        \/ /\ r.path \in {PREDICT_PATH, FLAG_PATH}
           /\ r.body.has_data
           /\ kind(r.body.data) \in {"raw", "flagged"}}

(* while True: httpd.serve_forever(): serve_forever is entered, whatever    *)
(* ended the call before.  It clears __is_shut_down and registers the       *)
(* socket with a selector; on a closed socket the registration raises       *)
(* ValueError, the finally clause runs and the exception ends the thread.   *)
EnterServeForever ==
    /\ thread_pc = "while_273"
    /\ pc = "idle"
    /\ entered_at' = Append(entered_at, closer_pc)
    /\ IF httpd.socket = "closed"
         THEN /\ httpd' = [httpd EXCEPT !.shutdown_request = FALSE, !.is_shut_down = TRUE]
              /\ thread_pc' = "dead"
         ELSE /\ httpd' = [httpd EXCEPT !.is_shut_down = FALSE]
              /\ thread_pc' = "serving"
    /\ UNCHANGED <<closer_pc, accepted_at, closed_at, server_vars, not_life>>

(* while not self.__shutdown_request: a connection is ready, it is accepted *)
(* and its handler run in this thread.                                      *)
ThreadAccept ==
    /\ thread_pc = "serving"
    /\ ~httpd.shutdown_request
    /\ httpd.socket = "listening"
    /\ AcceptOneOf(LifeRequests)
    /\ thread_pc' = "handling"
    /\ accepted_at' = Append(accepted_at, closer_pc)
    /\ UNCHANGED <<httpd, closer_pc, entered_at, closed_at, not_life>>

(* A variant in which an exception of the handler leaves serve_forever. *)
after_request_propagating(outcome) == IF outcome = "exception" THEN "dead" ELSE "serving"
(* _handle_request_noblock: process_request runs inside try/except          *)
(* Exception; handle_error and shutdown_request follow and the loop goes on. *)
after_request(outcome) == "serving"

(* do_POST has returned or raised: back in the loop of serve_forever. *)
ThreadHandled ==
    /\ thread_pc = "handling"
    /\ pc = "idle"
    /\ thread_pc' = after_request(served[Len(served)].outcome)
    /\ UNCHANGED <<httpd, closer_pc, accepted_at, entered_at, closed_at, server_vars, not_life>>

(* The loop sees __shutdown_request and ends; finally: __shutdown_request   *)
(* = False and __is_shut_down.set(), which wakes a shutdown() that waits.   *)
(* serve_forever returns into `while True`.                                 *)
ThreadLeavesLoop ==
    /\ thread_pc = "serving"
    /\ httpd.shutdown_request
    /\ httpd' = [httpd EXCEPT !.shutdown_request = FALSE, !.is_shut_down = TRUE]
    /\ thread_pc' = "while_273"
    /\ closer_pc' = IF closer_pc = "blocked" THEN "server_close_295" ELSE closer_pc
    /\ UNCHANGED <<accepted_at, entered_at, closed_at, server_vars, not_life>>

(* close_server(server) is called; shutdown() sets __shutdown_request. *)
CloseServer ==
    /\ closer_pc = "ready"
    /\ httpd' = [httpd EXCEPT !.shutdown_request = TRUE]
    /\ closer_pc' = "wait_294"
    /\ UNCHANGED <<thread_pc, accepted_at, entered_at, closed_at, server_vars, not_life>>

(* shutdown(): self.__is_shut_down.wait() returns at once if the event is   *)
(* set and blocks until the next set() otherwise.                           *)
ShutdownWait ==
    /\ closer_pc = "wait_294"
    /\ closer_pc' = IF httpd.is_shut_down THEN "server_close_295" ELSE "blocked"
    /\ UNCHANGED <<httpd, thread_pc, accepted_at, entered_at, closed_at, server_vars, not_life>>

(* server.server_close(): the listening socket is closed. *)
ServerClose ==
    /\ closer_pc = "server_close_295"
    /\ httpd' = [httpd EXCEPT !.socket = "closed"]
    /\ closed_at' = <<pc>>
    /\ closer_pc' = "done"
    /\ UNCHANGED <<thread_pc, accepted_at, entered_at, server_vars, not_life>>

(* serve_files_in_background has returned: the server is bound and its      *)
(* thread started.                                                          *)
LifeInit ==
    /\ httpd = NewServer
    /\ thread_pc = "while_273"
    /\ closer_pc = "ready"
    /\ accepted_at = <<>>
    /\ entered_at = <<>>
    /\ closed_at = <<>>

(* The lifecycle is left out: the server is listening throughout. *)
LifeIdle ==
    /\ httpd = NewServer
    /\ thread_pc = "serving"
    /\ closer_pc = "ready"
    /\ accepted_at = <<>>
    /\ entered_at = <<>>
    /\ closed_at = <<>>

LifeNext ==
    \/ EnterServeForever
    \/ ThreadAccept
    \/ PredictPreprocess \/ PredictPredict \/ PredictPostprocess \/ PredictRespond
    \/ FlagRebuildInput \/ FlagAppend
    \/ RotationDecode \/ LightingDecode
    \/ NotFound
    \/ ThreadHandled
    \/ ThreadLeavesLoop
    \/ CloseServer
    \/ ShutdownWait
    \/ ServerClose

TunnelIdle ==
    /\ tn_env = <<>>
    /\ tn_pc = "idle"
    /\ tn_response = <<>>
    /\ tn_result = <<>>
    /\ tn_error = <<>>

----------------------------------------------------------------------------
(* The port allocator and start_simple_server *)

INITIAL_PORT_VALUE == 7860
TRY_NUM_PORTS == MaxPorts

(* The ports a call may be asked to scan, and one port beyond them. *)
Ports == INITIAL_PORT_VALUE .. (INITIAL_PORT_VALUE + TRY_NUM_PORTS - 1)
PortArgs == INITIAL_PORT_VALUE .. (INITIAL_PORT_VALUE + TRY_NUM_PORTS)

(* s.bind((LOCALHOST_NAME, port)) raises OSError on a port that is bound. *)
Busy(port) == port \in occupied \cup probe_sockets \cup servers

(* A variant that never closes the probe socket. *)
probe_left_open(sockets, port) == sockets \cup {port}
(* s = socket.socket(); s.bind(...); s.close(): the sockets held after a    *)
(* probe that could bind.                                                   *)
probe(sockets, port) == (sockets \cup {port}) \ {port}

all_in_use(initial, final) ==
    "All ports from " \o ToString(initial) \o " to " \o ToString(final)
        \o " are in use. Please close a port."

NoCall == [caller |-> "", initial |-> 0, final |-> 0, port |-> 0, probes |-> <<>>,
           busy_at_call |-> {}, servers_at_call |-> {}, threads_at_call |-> 0,
           disturbed |-> FALSE]

(* get_first_available_port(initial, final) is called. *)
Call(caller, initial, final) ==
    /\ gp_pc = "idle"
    /\ gp_pc' = "scan"
    /\ gp' = [caller |-> caller, initial |-> initial, final |-> final, port |-> initial,
              probes |-> <<>>, busy_at_call |-> occupied \cup servers,
              servers_at_call |-> servers, threads_at_call |-> threads,
              disturbed |-> FALSE]
    /\ gp_result' = <<>>
    /\ gp_error' = ""
    /\ started' = <<>>
    /\ UNCHANGED <<not_port, occupied, probe_sockets, servers, threads, handles, gp_args, gp_prev>>

CallGetFirstAvailablePort == Call("caller", gp_args.initial, gp_args.final)

(* start_simple_server: get_first_available_port(INITIAL_PORT_VALUE,        *)
(* INITIAL_PORT_VALUE + TRY_NUM_PORTS).                                     *)
CallStartSimpleServer ==
    /\ Len(handles) < MaxStarts
    /\ Call("start_simple_server", INITIAL_PORT_VALUE, INITIAL_PORT_VALUE + TRY_NUM_PORTS)

(* One iteration of for port in range(initial, final): the bind raises and  *)
(* the loop goes on, or it succeeds, the socket is closed and the port      *)
(* returned.                                                                *)
ProbePort ==
    /\ gp_pc = "scan"
    /\ gp.port < gp.final
    /\ IF Busy(gp.port)
         THEN /\ gp' = [gp EXCEPT !.port = @ + 1,
                                  !.probes = Append(@, <<gp.port, "busy">>)]
              /\ UNCHANGED <<gp_pc, gp_result, probe_sockets>>
         ELSE /\ gp' = [gp EXCEPT !.probes = Append(@, <<gp.port, "free">>)]
              /\ probe_sockets' = probe(probe_sockets, gp.port)
              /\ gp_result' = <<gp.port>>
              /\ gp_pc' = "returned"
    /\ UNCHANGED <<not_port, occupied, servers, threads, handles, gp_args, gp_error, gp_prev, started>>

(* A variant that returns `final` when the loop ends. *)
PortsExhausted_returns_final ==
    /\ gp_pc = "scan"
    /\ gp.port >= gp.final
    /\ gp_result' = <<gp.final>>
    /\ gp_pc' = "returned"
    /\ UNCHANGED <<not_port, occupied, probe_sockets, servers, threads, handles, gp_args, gp, gp_error,
                   gp_prev, started>>
(* The loop has ended: raise OSError("All ports from ... are in use").  In  *)
(* start_simple_server nothing catches it.                                  *)
PortsExhausted ==
    /\ gp_pc = "scan"
    /\ gp.port >= gp.final
    /\ gp_error' = all_in_use(gp.initial, gp.final)
    /\ gp_pc' = "raised"
    /\ UNCHANGED <<not_port, occupied, probe_sockets, servers, threads, handles, gp_args, gp, gp_result,
                   gp_prev, started>>

(* HTTPServer(directory_to_serve, (LOCALHOST_NAME, port)): its socket is    *)
(* bound to the port and open.                                              *)
HTTPServer(port) == [server_address |-> <<LOCALHOST_NAME, port>>, open |-> TRUE]

(* start_simple_server goes on: serve_files_in_background(interface, port)  *)
(* binds an HTTPServer to the port and starts its thread; the bind raises   *)
(* OSError if the port has been taken since it was probed.                  *)
ServeFilesInBackground ==
    /\ gp_pc = "returned"
    /\ gp.caller = "start_simple_server"
    /\ LET port == gp_result[1] IN
       IF Busy(port)
         THEN /\ gp_error' = "Address already in use"
              /\ gp_pc' = "raised"
              /\ UNCHANGED <<servers, threads, handles, started>>
         ELSE /\ servers' = servers \cup {port}
              /\ threads' = threads + 1
              /\ handles' = Append(handles, HTTPServer(port))
              /\ started' = <<port, [server_address |-> <<LOCALHOST_NAME, port>>]>>
              /\ gp_pc' = "started"
              /\ UNCHANGED gp_error
    /\ UNCHANGED <<not_port, occupied, probe_sockets, gp_args, gp, gp_result, gp_prev>>

(* A variant of close_server without server_close(). *)
CallCloseServer_socket_left_open ==
    /\ gp_pc = "idle"
    /\ \E i \in 1..Len(handles) :
         /\ handles[i].open
         /\ handles' = [handles EXCEPT ![i].open = FALSE]
    /\ UNCHANGED <<not_port, occupied, probe_sockets, servers, threads, gp_args, gp_pc, gp,
                   gp_result, gp_error, gp_prev, started>>
(* close_server(server) returns: after shutdown(), server_close() has       *)
(* closed the server's socket and its port is bound no longer.              *)
CallCloseServer ==
    /\ gp_pc = "idle"
    /\ \E i \in 1..Len(handles) :
         /\ handles[i].open
         /\ handles' = [handles EXCEPT ![i].open = FALSE]
         /\ servers' = servers \ {handles[i].server_address[2]}
    /\ UNCHANGED <<not_port, occupied, probe_sockets, threads, gp_args, gp_pc, gp, gp_result,
                   gp_error, gp_prev, started>>

(* close_server(server) does not return: the serving thread has left and   *)
(* entered serve_forever again before shutdown() waits, so that the wait    *)
(* of line 294 never ends, server_close() is not reached and the socket     *)
(* stays bound.                                                             *)
CallCloseServerBlocks ==
    /\ gp_pc = "idle"
    /\ \E i \in 1..Len(handles) : handles[i].open
    /\ gp_pc' = "blocked"
    /\ UNCHANGED <<not_port, occupied, probe_sockets, servers, threads, handles, gp_args, gp,
                   gp_result, gp_error, gp_prev, started>>

(* The call is over: its caller has the port, the handle or the exception. *)
CallEnds ==
    /\ \/ gp_pc = "returned" /\ gp.caller = "caller"
       \/ gp_pc \in {"started", "raised"}
    /\ gp_pc' = "idle"
    /\ gp_prev' = <<[caller |-> gp.caller, busy_at_call |-> gp.busy_at_call,
                      disturbed |-> gp.disturbed,
                      result |-> IF gp.disturbed THEN <<>> ELSE gp_result]>>
    /\ gp' = NoCall
    /\ gp_result' = <<>>
    /\ gp_error' = ""
    /\ started' = <<>>
    /\ UNCHANGED <<not_port, occupied, probe_sockets, servers, threads, handles, gp_args>>

(* Another process binds a free port, or closes one it has bound.  A call  *)
(* that runs meanwhile no longer has one set of occupied ports to its name. *)
OtherProcess ==
    /\ \E port \in Ports :
         \/ ~Busy(port) /\ occupied' = occupied \cup {port}
         \/ port \in occupied /\ occupied' = occupied \ {port}
    /\ gp' = IF gp_pc = "idle" THEN gp
             ELSE [gp EXCEPT !.disturbed = TRUE, !.busy_at_call = {}]
    /\ UNCHANGED <<not_port, probe_sockets, servers, threads, handles, gp_args, gp_pc, gp_result, gp_error,
                   gp_prev, started>>

(* No call of the port allocator is running or has run. *)
PortIdle ==
    /\ occupied = {}
    /\ probe_sockets = {}
    /\ servers = {}
    /\ threads = 0
    /\ handles = <<>>
    /\ gp_args = [initial |-> INITIAL_PORT_VALUE, final |-> INITIAL_PORT_VALUE]
    /\ gp_pc = "idle"
    /\ gp = NoCall
    /\ gp_result = <<>>
    /\ gp_error = ""
    /\ gp_prev = <<>>
    /\ started = <<>>

(* Any set of ports of the window may be occupied by other processes. *)
PortInit ==
    /\ occupied \in SUBSET Ports
    /\ probe_sockets = {}
    /\ servers = {}
    /\ threads = 0
    /\ handles = <<>>
    /\ gp_args \in [initial : PortArgs, final : PortArgs]
    /\ gp_pc = "idle"
    /\ gp = NoCall
    /\ gp_result = <<>>
    /\ gp_error = ""
    /\ gp_prev = <<>>
    /\ started = <<>>

PortNext ==
    \/ CallGetFirstAvailablePort
    \/ CallStartSimpleServer
    \/ ProbePort
    \/ PortsExhausted
    \/ ServeFilesInBackground
    \/ CallEnds
    \/ OtherProcess

(* A process that starts servers on the fixed window of start_simple_server *)
(* and closes servers it has started.                                       *)
HandlesInit ==
    /\ PortInit
    /\ gp_args = [initial |-> INITIAL_PORT_VALUE, final |-> INITIAL_PORT_VALUE + TRY_NUM_PORTS]

HandlesNext ==
    \/ CallStartSimpleServer
    \/ ProbePort
    \/ PortsExhausted
    \/ ServeFilesInBackground
    \/ CallCloseServer
    \/ CallCloseServerBlocks
    \/ CallEnds
    \/ OtherProcess

----------------------------------------------------------------------------
(* setup_tunnel and url_request *)

GRADIO_API_SERVER == "https://api.gradio.app/v1/tunnel-request"

not_tunnel == <<server_vars, port_vars, render_vars, config_vars, life_vars>>

(* What the broker does with the request: it cannot be reached, it does not *)
(* answer within the 10 seconds, or it answers with a status code.          *)
BrokerAnswers ==
    {<<"unreachable">>, <<"timeout">>}
      \cup {<<"status", code>> : code \in {200, 204, 404, 500}}

(* The body of the broker's answer: no JSON, an empty array, an object, or  *)
(* an array whose first element is the tunnel's payload.                    *)
BrokerBodies == {<<"not_json">>, <<"array">>, <<"object">>, <<"array", "payload">>}

(* gradio.tunneling.create_tunnel returns the public URL or raises. *)
create_tunnel(payload, host, port) == <<"create_tunnel", payload, host, port>>

(* urllib.request.urlopen(req, timeout=10) raises URLError, socket.timeout  *)
(* or, for a status outside 200..299, HTTPError; str(e) of each.            *)
urlopen_raises(answer) ==
    \/ answer[1] \in {"unreachable", "timeout"}
    \/ answer[1] = "status" /\ ~(200 <= answer[2] /\ answer[2] < 300)

urlopen_error(answer) ==
    IF answer[1] = "unreachable" THEN "<urlopen error unreachable>"
    ELSE IF answer[1] = "timeout" THEN "timed out"
    ELSE "HTTP Error " \o ToString(answer[2])

(* raise RuntimeError(str(e)) *)
RuntimeError(message) == [type |-> "RuntimeError", message |-> message]

TunnelInit ==
    /\ tn_env \in [port : Ports, broker : BrokerAnswers, body : BrokerBodies,
                   tunnel : {"url", "raises"}]
    /\ tn_pc = "idle"
    /\ tn_response = <<>>
    /\ tn_result = <<>>
    /\ tn_error = <<>>

(* setup_tunnel(local_server_port) is called. *)
CallSetupTunnel ==
    /\ tn_pc = "idle"
    /\ tn_pc' = "url_request_310"
    /\ UNCHANGED <<tn_env, tn_response, tn_result, tn_error, not_tunnel>>

(* response = url_request(GRADIO_API_SERVER): the response of urlopen, or   *)
(* RuntimeError(str(e)) for whatever urlopen raised.                        *)
UrlRequest ==
    /\ tn_pc = "url_request_310"
    /\ IF urlopen_raises(tn_env.broker)
         THEN /\ tn_error' = <<RuntimeError(urlopen_error(tn_env.broker))>>
              /\ tn_pc' = "raised"
              /\ UNCHANGED tn_response
         ELSE /\ tn_response' = <<[code |-> tn_env.broker[2], body |-> tn_env.body]>>
              /\ tn_pc' = "if_311"
              /\ UNCHANGED tn_error
    /\ UNCHANGED <<tn_env, tn_result, not_tunnel>>

(* if response and response.code == 200: ...; otherwise the function ends   *)
(* and returns None.                                                        *)
CheckResponse ==
    /\ tn_pc = "if_311"
    /\ IF tn_response[1].code = 200
         THEN tn_pc' = "loads_313" /\ UNCHANGED tn_result
         ELSE tn_result' = <<"None">> /\ tn_pc' = "returned"
    /\ UNCHANGED <<tn_env, tn_response, tn_error, not_tunnel>>

(* payload = json.loads(response.read().decode("utf-8"))[0] *)
LoadPayload ==
    /\ tn_pc = "loads_313"
    /\ LET body == tn_response[1].body IN
       IF body = <<"array", "payload">>
         THEN tn_pc' = "create_tunnel_314" /\ UNCHANGED tn_error
         ELSE /\ tn_error' = <<RuntimeError(
                                  IF body = <<"not_json">> THEN "Expecting value"
                                  ELSE IF body = <<"array">> THEN "list index out of range"
                                  ELSE "0")>>
              /\ tn_pc' = "raised"
    /\ UNCHANGED <<tn_env, tn_response, tn_result, not_tunnel>>

(* return create_tunnel(payload, LOCALHOST_NAME, local_server_port) *)
CreateTunnel ==
    /\ tn_pc = "create_tunnel_314"
    /\ IF tn_env.tunnel = "url"
         THEN /\ tn_result' = <<create_tunnel(tn_response[1].body[2], LOCALHOST_NAME,
                                              tn_env.port)>>
              /\ tn_pc' = "returned"
              /\ UNCHANGED tn_error
         ELSE /\ tn_error' = <<RuntimeError("tunnel negotiation failed")>>
              /\ tn_pc' = "raised"
              /\ UNCHANGED tn_result
    /\ UNCHANGED <<tn_env, tn_response, not_tunnel>>

TunnelNext == CallSetupTunnel \/ UrlRequest \/ CheckResponse \/ LoadPayload \/ CreateTunnel

----------------------------------------------------------------------------
(* The template renderer.  A string is a sequence of characters. *)

(* Whether `old` occurs in s at position i. *)
occurs_at(s, i, old) ==
    /\ i + Len(old) - 1 <= Len(s)
    /\ \A j \in 1..Len(old) : s[i + j - 1] = old[j]

(* s[i..].replace(old, new) for a non-empty old: the occurrences of old,    *)
(* found from the left and not overlapping, each replaced by new.           *)
RECURSIVE replace_from(_, _, _, _)
replace_from(s, i, old, new) ==
    IF i > Len(s) THEN <<>>
    ELSE IF occurs_at(s, i, old) THEN new \o replace_from(s, i + Len(old), old, new)
    ELSE <<s[i]>> \o replace_from(s, i + 1, old, new)

(* s.replace(old, new) *)
str_replace(s, old, new) == replace_from(s, 1, old, new)

(* r"{{" + key + r"}}" *)
tag(key) == <<"{", "{">> \o key \o <<"}", "}">>

(* The string case: for key, value in context.items():                      *)
(*     old_lines = old_lines.replace(r"{{" + key + r"}}", str(value))       *)
RECURSIVE render_string(_, _)
render_string(old_lines, context) ==
    IF context = <<>> THEN old_lines
    ELSE render_string(str_replace(old_lines, tag(context[1][1]), context[1][2]),
                       Tail(context))

(* The list case, the inner loop over context.items() for one line. *)
RECURSIVE render_line(_, _)
render_line(line, context) ==
    IF context = <<>> THEN line
    ELSE render_line(str_replace(line, tag(context[1][1]), context[1][2]), Tail(context))

(* A variant of the list case that drops the lines rendering to "". *)
RECURSIVE render_lines_no_blank(_, _, _)
render_lines_no_blank(old_lines, context, new_lines) ==
    IF old_lines = <<>> THEN new_lines
    ELSE LET line == render_line(Head(old_lines), context) IN
         render_lines_no_blank(Tail(old_lines), context,
                               IF line = <<>> THEN new_lines ELSE Append(new_lines, line))
(* The list case, the loop over old_lines: new_lines.append(line). *)
RECURSIVE render_lines(_, _, _)
render_lines(old_lines, context, new_lines) ==
    IF old_lines = <<>> THEN new_lines
    ELSE render_lines(Tail(old_lines), context,
                      Append(new_lines, render_line(Head(old_lines), context)))

(* render_string_or_list_with_tags(old_lines, context); old_lines is        *)
(* [type |-> "str", value |-> a string] or [type |-> "list", value |-> a    *)
(* sequence of strings], and so is the result.                              *)
render_string_or_list_with_tags(old_lines, context) ==
    IF old_lines.type = "str"
      THEN [type |-> "str", value |-> render_string(old_lines.value, context)]
      ELSE [type |-> "list", value |-> render_lines(old_lines.value, context, <<>>)]

(* fin.readlines(): the lines of a text, each with its newline. *)
RECURSIVE readlines(_)
readlines(text) ==
    IF text = <<>> THEN <<>>
    ELSE LET ends == {i \in 1..Len(text) : text[i] = "\n"}
             n == IF ends = {} THEN Len(text)
                  ELSE CHOOSE i \in ends : \A k \in ends : i <= k
         IN <<SubSeq(text, 1, n)>> \o readlines(SubSeq(text, n + 1, Len(text)))

(* for line in new_lines: fout.write(line) *)
RECURSIVE write_lines(_)
write_lines(lines) ==
    IF lines = <<>> THEN <<>> ELSE Head(lines) \o write_lines(Tail(lines))

(* render_template_with_tags(template_path, context), as the new content    *)
(* of the file for its old one.                                             *)
render_template_with_tags(text, context) ==
    write_lines(render_string_or_list_with_tags(
                    [type |-> "list", value |-> readlines(text)], context).value)

INPUT_INTERFACE_TYPE == <<"i", "n", "p", "u", "t", "_", "i", "n", "t", "e", "r", "f", "a", "c", "e", "_", "t", "y", "p", "e">>
OUTPUT_INTERFACE_TYPE == <<"o", "u", "t", "p", "u", "t", "_", "i", "n", "t", "e", "r", "f", "a", "c", "e", "_", "t", "y", "p", "e">>
SHARE_URL == <<"s", "h", "a", "r", "e", "_", "u", "r", "l">>

(* A variant that renders the input interface type only. *)
set_interface_types_input_only(text, input_interface, output_interface) ==
    render_template_with_tags(text, << <<INPUT_INTERFACE_TYPE, input_interface>> >>)

set_interface_types_in_config_file(text, input_interface, output_interface) ==
    render_template_with_tags(text, << <<INPUT_INTERFACE_TYPE, input_interface>>,
                                       <<OUTPUT_INTERFACE_TYPE, output_interface>> >>)

set_share_url_in_config_file(text, share_url) ==
    render_template_with_tags(text, << <<SHARE_URL, share_url>> >>)

(* The texts put together from at most n of the pieces. *)
RECURSIVE TextsOf(_, _)
TextsOf(pieces, n) ==
    IF n = 0 THEN {<<>>}
    ELSE LET shorter == TextsOf(pieces, n - 1)
         IN shorter \cup {t \o piece : t \in shorter, piece \in pieces}

(* The sequences of at most n elements of S. *)
SeqsUpTo(S, n) == UNION {[1..k -> S] : k \in 0..n}

(* The renderer called on strings and lists over two keys, a and b. *)
KEY_A == <<"a">>
KEY_B == <<"b">>

Segments == {tag(KEY_A), tag(KEY_B), <<"{", "{">>, <<"}", "}">>, <<"{">>, <<"}">>,
             <<"a">>, <<"x">>}

Values == {<<>>, <<"x">>, tag(KEY_B), <<"{">>}

(* A context is a dict: its keys are distinct. *)
Contexts ==
    {context \in SeqsUpTo({KEY_A, KEY_B} \X Values, 2) :
        \A i, j \in 1..Len(context) : i # j => context[i][1] # context[j][1]}

RenderInputs ==
    [type : {"str"}, value : TextsOf(Segments, MaxSegments)]
      \cup [type : {"list"}, value : SeqsUpTo(TextsOf(Segments, 1), MaxLines)]

RenderInit ==
    /\ r_text \in RenderInputs
    /\ r_context \in Contexts
    /\ r_input = r_text
    /\ r_output = r_text
    /\ r_count = 0

(* render_string_or_list_with_tags is called on what the caller has. *)
Render ==
    /\ r_count < MaxRenders
    /\ r_input' = r_output
    /\ r_output' = render_string_or_list_with_tags(r_output, r_context)
    /\ r_count' = r_count + 1
    /\ UNCHANGED <<r_text, r_context>>
    /\ UNCHANGED <<server_vars, port_vars, config_vars, life_vars, tunnel_vars>>

RenderIdle ==
    /\ r_text = [type |-> "str", value |-> <<>>]
    /\ r_context = <<>>
    /\ r_input = r_text
    /\ r_output = r_text
    /\ r_count = 0

(* The config file and its two rendering passes. *)
ConfigSegments ==
    {tag(INPUT_INTERFACE_TYPE), tag(OUTPUT_INTERFACE_TYPE), tag(SHARE_URL),
     <<"{", "{">>, <<"{">>, <<"\n">>, <<"_", "u", "r", "l", "}", "}">>}

InterfaceValues == {<<>>, <<"s", "h", "a", "r", "e">>, tag(SHARE_URL)}
UrlValues == {<<"u">>, tag(INPUT_INTERFACE_TYPE)}

ConfigInit ==
    /\ config_orig \in TextsOf(ConfigSegments, MaxConfigSegments)
    /\ config_file = config_orig
    /\ config_values \in [input : InterfaceValues, output : {<<"w">>}, url : UrlValues]
    /\ config_passes = <<>>

SetInterfaceTypes ==
    /\ Len(config_passes) < MaxPasses
    /\ config_file' = set_interface_types_in_config_file(
                          config_file, config_values.input, config_values.output)
    /\ config_passes' = Append(config_passes, "interface_types")
    /\ UNCHANGED <<config_orig, config_values>>
    /\ UNCHANGED <<server_vars, port_vars, render_vars, life_vars, tunnel_vars>>

SetShareUrl ==
    /\ Len(config_passes) < MaxPasses
    /\ config_file' = set_share_url_in_config_file(config_file, config_values.url)
    /\ config_passes' = Append(config_passes, "share_url")
    /\ UNCHANGED <<config_orig, config_values>>
    /\ UNCHANGED <<server_vars, port_vars, render_vars, life_vars, tunnel_vars>>

ConfigIdle ==
    /\ config_orig = <<>>
    /\ config_file = <<>>
    /\ config_values = [input |-> <<>>, output |-> <<>>, url |-> <<>>]
    /\ config_passes = <<>>

----------------------------------------------------------------------------
(* The server is listening in a serve directory whose flag directory and    *)
(* flag log are created on demand.                                          *)
ServerInit ==
    /\ saliency_declared \in BOOLEAN
    /\ flag_dir_exists \in BOOLEAN
    /\ flag_file_exists \in {f \in BOOLEAN : f => flag_dir_exists}
    /\ flag_file = <<>>
    /\ pc = "idle"
    /\ request = [path |-> "", body |-> CHOOSE b \in Bodies : ~b.length]
    /\ frame = EmptyFrame
    /\ response = NoResponse
    /\ calls = <<>>
    /\ fs_at_accept = [dir |-> flag_dir_exists, file |-> flag_file_exists,
                       content |-> flag_file]
    /\ served = <<>>

ServerIdle ==
    /\ saliency_declared = FALSE
    /\ flag_dir_exists = FALSE
    /\ flag_file_exists = FALSE
    /\ flag_file = <<>>
    /\ pc = "idle"
    /\ request = [path |-> "", body |-> CHOOSE b \in Bodies : ~b.length]
    /\ frame = EmptyFrame
    /\ response = NoResponse
    /\ calls = <<>>
    /\ fs_at_accept = [dir |-> FALSE, file |-> FALSE, content |-> <<>>]
    /\ served = <<>>

ServerNext == Accept \/ do_POST

vars == <<server_vars, port_vars, render_vars, config_vars, life_vars, tunnel_vars>>

(* The prediction server handling requests. *)
Init == ServerInit /\ PortIdle /\ RenderIdle /\ ConfigIdle /\ LifeIdle /\ TunnelIdle

Next == ServerNext

Spec == Init /\ [][Next]_vars

(* The port allocator and start_simple_server, beside other processes. *)
InitPort == PortInit /\ ServerIdle /\ RenderIdle /\ ConfigIdle /\ LifeIdle /\ TunnelIdle

NextPort == PortNext

SpecPort == InitPort /\ [][NextPort]_vars

(* Servers started by start_simple_server and closed by close_server. *)
InitHandles == HandlesInit /\ ServerIdle /\ RenderIdle /\ ConfigIdle /\ LifeIdle /\ TunnelIdle

NextHandles == HandlesNext

SpecHandles == InitHandles /\ [][NextHandles]_vars

(* Calls of render_string_or_list_with_tags. *)
InitRender == RenderInit /\ ServerIdle /\ PortIdle /\ ConfigIdle /\ LifeIdle /\ TunnelIdle

NextRender == Render

SpecRender == InitRender /\ [][NextRender]_vars

(* The rendering passes over static/config.json. *)
InitConfig == ConfigInit /\ ServerIdle /\ PortIdle /\ RenderIdle /\ LifeIdle /\ TunnelIdle

NextConfig == SetInterfaceTypes \/ SetShareUrl

SpecConfig == InitConfig /\ [][NextConfig]_vars

(* The running server, its clients and the caller of close_server. *)
InitLife == ServerInit /\ LifeInit /\ PortIdle /\ RenderIdle /\ ConfigIdle /\ TunnelIdle

NextLife == LifeNext

SpecLife == InitLife /\ [][NextLife]_vars

(* Calls of setup_tunnel. *)
InitTunnel == TunnelInit /\ ServerIdle /\ PortIdle /\ RenderIdle /\ ConfigIdle /\ LifeIdle

NextTunnel == TunnelNext

SpecTunnel == InitTunnel /\ [][NextTunnel]_vars

----------------------------------------------------------------------------
(* Properties of the port allocator *)

Min(S) == CHOOSE x \in S : \A y \in S : x <= y

(* The probes of a scan that went from `initial` up to `last`, which was    *)
(* `outcome`: every port before it raised on bind.                          *)
ProbesUpTo(initial, last, outcome) ==
    [k \in 1..(last - initial + 1) |->
        <<initial + k - 1, IF initial + k - 1 = last THEN outcome ELSE "busy">>]

(* The ports of the range that were free when the call began. *)
FreeAtCall == {q \in gp.initial .. (gp.final - 1) : q \notin gp.busy_at_call}

(* C6: a port that get_first_available_port(initial, final) returns lies   *)
(* in [initial, final), could be bound when it was probed, and every lower *)
(* port of the range could not when it was probed; the probe socket is     *)
(* closed; while no other process binds or releases a port, the port       *)
(* returned is the lowest one not occupied, it is still free, and a call   *)
(* that follows one with the same occupied ports has the same result.      *)
C6_LowestFreePort ==
    /\ gp_result # <<>> =>
         LET p == gp_result[1] IN
         /\ p \in gp.initial .. (gp.final - 1)
         /\ gp.probes = ProbesUpTo(gp.initial, p, "free")
         /\ p \notin probe_sockets
         /\ (gp_pc = "returned" /\ ~gp.disturbed) =>
              /\ p = Min(FreeAtCall)
              /\ ~Busy(p)
    /\ (/\ gp_pc \in {"returned", "raised"}
        /\ ~gp.disturbed
        /\ gp_prev # <<>>
        /\ ~gp_prev[1].disturbed
        /\ gp_prev[1].caller = gp.caller
        /\ gp_prev[1].busy_at_call = gp.busy_at_call)
         => gp_prev[1].result = gp_result

(* A second call, with the same ports occupied as the first, has returned  *)
(* a port above occupied ones.                                             *)
C6_Witness ==
    /\ gp_pc = "returned"
    /\ ~gp.disturbed
    /\ gp_prev # <<>>
    /\ ~gp_prev[1].disturbed
    /\ gp_prev[1].caller = gp.caller
    /\ gp_prev[1].busy_at_call = gp.busy_at_call
    /\ gp.initial = INITIAL_PORT_VALUE
    /\ gp_result = <<INITIAL_PORT_VALUE + 2>>
    /\ occupied = {INITIAL_PORT_VALUE, INITIAL_PORT_VALUE + 1}

(* C7: a call that finds no port of [initial, final) to bind, an empty     *)
(* range included, returns no port and raises the OSError "All ports from  *)
(* <initial> to <final> are in use", having probed every port of the       *)
(* range; it does so whenever all ports of the range are occupied; and     *)
(* start_simple_server then ends with this error, with no server and no    *)
(* thread created and nothing returned.                                    *)
C7_ExhaustionRaises ==
    /\ (gp_pc = "raised" /\ gp_result = <<>>) =>
         /\ gp_error = all_in_use(gp.initial, gp.final)
         /\ gp.probes = ProbesUpTo(gp.initial, gp.final - 1, "busy")
         /\ servers = gp.servers_at_call
         /\ threads = gp.threads_at_call
         /\ started = <<>>
    /\ (gp_pc \in {"returned", "started", "raised"} /\ ~gp.disturbed /\ FreeAtCall = {}) =>
         /\ gp_pc = "raised"
         /\ gp_result = <<>>
         /\ gp_error = all_in_use(gp.initial, gp.final)

(* start_simple_server has failed on a window whose ports are all taken. *)
C7_Witness ==
    /\ gp_pc = "raised"
    /\ gp.caller = "start_simple_server"
    /\ gp_result = <<>>
    /\ ~gp.disturbed
    /\ Len(gp.probes) = TRY_NUM_PORTS

(* A call on an empty range has raised. *)
C7_WitnessEmptyRange ==
    /\ gp_pc = "raised"
    /\ gp.caller = "caller"
    /\ gp.initial >= gp.final
    /\ gp.probes = <<>>

----------------------------------------------------------------------------
(* Properties of the request handler *)

(* The handler of the last accepted request has returned with `outcome`. *)
Handled(path, outcome) ==
    /\ pc = "idle"
    /\ served # <<>>
    /\ request.path = path
    /\ served[Len(served)].outcome = outcome

(* The calls of the current request to the collaborators in `names`. *)
CallsTo(names) == SelectSeq(calls, LAMBDA c : c[1] \in names)

(* What the current request has written to the flag log. *)
Appended == SubSeq(flag_file, Len(fs_at_accept.content) + 1, Len(flag_file))

(* A log of newline-terminated records: a record, a newline, a record, ... *)
IsLines(file) ==
    /\ Len(file) % 2 = 0
    /\ \A i \in 1..Len(file) : (file[i] = NEWLINE) <=> (i % 2 = 0)

LineCount(file) == Cardinality({i \in 1..Len(file) : file[i] = NEWLINE})

(* The record on line n of a log of lines. *)
Line(file, n) == json_parse(file[2 * n - 1])

(* C1: a POST to /api/predict/ that is handled without an exception is     *)
(* answered 200 with one JSON body whose action is "output" and whose data *)
(* is postprocess(predict(preprocess(d))) for the d of the request, and    *)
(* preprocess, predict and postprocess were each called once, in that      *)
(* order, each on the result of the one before.                            *)
C1_PredictIsComposition ==
    Handled(PREDICT_PATH, "ok") =>
        LET d == request.body.data IN
        /\ response.status = 200
        /\ Len(response.body) = 1
        /\ json_parse(response.body[1]).action = "output"
        /\ json_parse(response.body[1]).data = postprocess(predict(preprocess(d)))
        /\ CallsTo({"preprocess", "predict", "postprocess"})
             = << <<"preprocess", d>>,
                  <<"predict", preprocess(d)>>,
                  <<"postprocess", predict(preprocess(d))>> >>

C1_Witness ==
    /\ Handled(PREDICT_PATH, "ok")
    /\ request.body.data = <<"raw", "r0">>
    /\ Len(response.body) = 1

(* The record /api/flag/ writes for a request. *)
FlagRecord(req) ==
    LET msg == json_loads(req.body) IN
    [input |-> input_rebuild_flagged(flag_dir, msg),
     output |-> output_rebuild_flagged(flag_dir, msg),
     message |-> val(req.body.data)]

(* C2: a POST to /api/flag/ handled without an exception has appended      *)
(* exactly one record {input, output, message} and one newline to the log; *)
(* and after N such requests and no other, from an absent or empty log,    *)
(* the log is N newline-terminated lines, line i the record of request i,  *)
(* also when requests are identical.                                       *)
C2_FlagAppendsOneLine ==
    /\ Handled(FLAG_PATH, "ok") =>
         /\ flag_file_exists
         /\ flag_file = fs_at_accept.content \o <<json_dumps(FlagRecord(request)), NEWLINE>>
    /\ (/\ pc = "idle"
        /\ \A i \in 1..Len(served) :
             served[i].request.path = FLAG_PATH /\ served[i].outcome = "ok")
         => /\ IsLines(flag_file)
            /\ LineCount(flag_file) = Len(served)
            /\ \A i \in 1..Len(served) : Line(flag_file, i) = FlagRecord(served[i].request)

(* Two identical flag requests have been handled. *)
C2_Witness ==
    /\ pc = "idle"
    /\ Len(served) = 2
    /\ served[1] = served[2]
    /\ served[1].request.path = FLAG_PATH
    /\ served[1].outcome = "ok"
    /\ LineCount(flag_file) = 2

RotationMessages ==
    <<"rotation by -180 degrees", "rotation by -135 degrees", "rotation by -90 degrees",
      "rotation by -45 degrees", "rotation by 0 degrees", "rotation by 45 degrees",
      "rotation by 90 degrees", "rotation by 135 degrees", "rotation by 180 degrees">>

RotationAngles == <<-180, -135, -90, -45, 0, 45, 90, 135, 180>>

(* The image an auto route works on. *)
ImageOf(req) == resize_224(convert_RGB(decode_base64_to_image(req.body.data)))

(* C3: a POST to /api/auto/rotation handled without an exception has       *)
(* appended exactly 9 newline-terminated records, with the messages        *)
(* "rotation by D degrees" for D = -180, -135, ..., 180 in this order, and *)
(* called predict once per angle, on the image rotated by it; and while a  *)
(* rotation request is handled, nothing of the response body is written    *)
(* before the ninth record is in the log.                                  *)
C3_RotationNineRecords ==
    /\ Handled(ROTATION_PATH, "ok") =>
         /\ Len(Appended) = 18
         /\ IsLines(Appended)
         /\ \A k \in 1..9 : Line(Appended, k).message = RotationMessages[k]
         /\ CallsTo({"predict"}) =
              [k \in 1..9 |->
                 <<"predict", as_model_input(rotate(ImageOf(request), RotationAngles[k]))>>]
         /\ response.body = <<json_dumps(EmptyDict)>>
    /\ (request.path = ROTATION_PATH /\ response.body # <<>>) =>
         /\ LineCount(Appended) = 9
         /\ Line(Appended, 9).message = RotationMessages[9]

C3_Witness ==
    /\ Handled(ROTATION_PATH, "ok")
    /\ response.body # <<>>
    /\ LineCount(Appended) = 9

LightingMessages ==
    <<"brighting adjustment by a factor of 0", "brighting adjustment by a factor of 1",
      "brighting adjustment by a factor of 2", "brighting adjustment by a factor of 3",
      "brighting adjustment by a factor of 4", "brighting adjustment by a factor of 5",
      "brighting adjustment by a factor of 6", "brighting adjustment by a factor of 7",
      "brighting adjustment by a factor of 8">>

(* C4: a POST to /api/auto/lighting handled without an exception has       *)
(* appended exactly 9 newline-terminated records, the record of step       *)
(* i = 0..8 (in increasing order) with the message "brighting adjustment   *)
(* by a factor of i", and called predict once per step, on the image       *)
(* brightened by the factor i/4; the response body is written after the    *)
(* ninth record.                                                           *)
C4_LightingNineRecords ==
    /\ Handled(LIGHTING_PATH, "ok") =>
         /\ Len(Appended) = 18
         /\ IsLines(Appended)
         /\ \A k \in 1..9 : Line(Appended, k).message = LightingMessages[k]
         /\ CallsTo({"predict"}) =
              [k \in 1..9 |->
                 <<"predict", as_model_input(enhance(ImageOf(request), k - 1, 4))>>]
         /\ response.body = <<json_dumps(EmptyDict)>>
    /\ (request.path = LIGHTING_PATH /\ response.body # <<>>) =>
         /\ LineCount(Appended) = 9
         /\ Line(Appended, 9).message = LightingMessages[9]

C4_Witness ==
    /\ Handled(LIGHTING_PATH, "ok")
    /\ response.body # <<>>
    /\ LineCount(Appended) = 9

(* C5: a POST to a path that is none of the four routes is answered 404    *)
(* with a body naming the path; at no point of its handling has a          *)
(* collaborator been called or the flag directory or log been touched.     *)
C5_UndefinedPath404 ==
    (pc # "idle" \/ served # <<>>) /\ request.path \notin ApiPaths =>
        /\ calls = <<>>
        /\ flag_file = fs_at_accept.content
        /\ flag_file_exists = fs_at_accept.file
        /\ flag_dir_exists = fs_at_accept.dir
        /\ pc = "idle" =>
             /\ response.status = 404
             /\ response.body = << <<"error", 404, "Path not found: " \o request.path>> >>

(* "/api/predict", without the trailing slash, has been answered. *)
C5_Witness ==
    /\ Handled("/api/predict", "ok")
    /\ response.status = 404
    /\ Len(served) = 2
    /\ flag_file # <<>>

----------------------------------------------------------------------------
(* The renderer. *)

(* The reading of "every occurrence of {{key}} in the input is replaced by  *)
(* its value and nothing else changes": one pass over the input from the    *)
(* left, the tags of the context replaced where they stand in the input.    *)
RECURSIVE substitute_from(_, _, _)
substitute_from(text, i, context) ==
    IF i > Len(text) THEN <<>>
    ELSE LET hits == {k \in 1..Len(context) : occurs_at(text, i, tag(context[k][1]))}
         IN IF hits = {} THEN <<text[i]>> \o substitute_from(text, i + 1, context)
            ELSE LET k == CHOOSE h \in hits : TRUE
                 IN context[k][2]
                      \o substitute_from(text, i + Len(tag(context[k][1])), context)

substitute(text, context) == substitute_from(text, 1, context)

substitute_all(old_lines, context) ==
    IF old_lines.type = "str"
      THEN [type |-> "str", value |-> substitute(old_lines.value, context)]
      ELSE [type |-> "list",
            value |-> [i \in 1..Len(old_lines.value) |->
                          substitute(old_lines.value[i], context)]]

Contains(text, piece) == \E i \in 1..Len(text) : occurs_at(text, i, piece)

(* C8: render_string_or_list_with_tags replaces every occurrence of a       *)
(* context key's tag in its input by the key's value and leaves the rest,   *)
(* the tags of other names included, as it is.  The code does not: a value  *)
(* it has put in is searched for the tags of the keys that come after.      *)
C8_RendersEveryTagOfTheInput ==
    r_count >= 1 => r_output = substitute_all(r_input, r_context)

(* C10: rendering a list gives a list of the same length whose i-th element *)
(* is the rendering of the i-th line as a single string.                    *)
C10_ListIsElementwise ==
    (r_count >= 1 /\ r_input.type = "list") =>
        /\ r_output.type = "list"
        /\ Len(r_output.value) = Len(r_input.value)
        /\ \A i \in 1..Len(r_input.value) :
              r_output.value[i] =
                render_string_or_list_with_tags(
                    [type |-> "str", value |-> r_input.value[i]], r_context).value

C10_Witness ==
    /\ r_count = 1
    /\ r_input.type = "list"
    /\ Len(r_input.value) = 2
    /\ r_input.value[1] # r_input.value[2]
    /\ r_output.value[1] # r_input.value[1]
    /\ r_output.value[2] = <<>>

----------------------------------------------------------------------------
(* The config file. *)

BraceFree(text) == \A i \in 1..Len(text) : text[i] \notin {"{", "}"}

ConfigContext ==
    << <<INPUT_INTERFACE_TYPE, config_values.input>>,
       <<OUTPUT_INTERFACE_TYPE, config_values.output>>,
       <<SHARE_URL, config_values.url>> >>

(* The config text with the occurrences of the three tags deleted. *)
WithoutTags(text) ==
    substitute(text, << <<INPUT_INTERFACE_TYPE, <<>> >>,
                        <<OUTPUT_INTERFACE_TYPE, <<>> >>,
                        <<SHARE_URL, <<>> >> >>)

PlainConfig ==
    /\ BraceFree(config_values.input)
    /\ BraceFree(config_values.output)
    /\ BraceFree(config_values.url)
    /\ ~Contains(WithoutTags(config_orig), <<"{", "{">>)

(* Once both passes have run, in either order and however often, the file   *)
(* is what one render of the original with all three tags gives, the tags   *)
(* taken in the order written or in the opposite one.                       *)
BothPassesAreOneRender ==
    {"interface_types", "share_url"} \subseteq {config_passes[i] : i \in 1..Len(config_passes)}
      => /\ config_file = render_template_with_tags(config_orig, ConfigContext)
         /\ config_file =
              render_template_with_tags(
                  config_orig, <<ConfigContext[3], ConfigContext[2], ConfigContext[1]>>)

(* C9, as stated: for every config text and every values of the three tags, *)
(* the two passes in either order give the same file as a single render     *)
(* with all three tags, and running a pass again changes nothing.           *)
C9_PassesRepeatable == BothPassesAreOneRender

(* C9, amended: the same, for tag values that contain no brace and a config *)
(* text in which no "{{" is left when the three tags are deleted from it.   *)
C9_PassesRepeatableOnPlainConfig == PlainConfig => BothPassesAreOneRender

C9_Witness ==
    /\ PlainConfig
    /\ config_passes = <<"share_url", "interface_types", "share_url">>
    /\ Contains(config_orig, tag(SHARE_URL))
    /\ Contains(config_orig, tag(OUTPUT_INTERFACE_TYPE))
    /\ Contains(config_orig, tag(INPUT_INTERFACE_TYPE))
    /\ ~Contains(config_file, <<"{", "{">>)

----------------------------------------------------------------------------
(* Properties of the server's life *)

(* C11: no connection is accepted once shutdown() has returned.  The code   *)
(* does accept one: serve_forever is called again by `while True`, with     *)
(* __shutdown_request reset, while the socket is still open.                *)
C11_NoAcceptAfterShutdown ==
    \A i \in 1..Len(accepted_at) : accepted_at[i] \notin {"server_close_295", "done"}

(* C12: the listening socket is never closed while a handler is executing:  *)
(* server_close finds every accepted request handled to its end.  The code  *)
(* closes it under a handler that was started after shutdown() returned.    *)
C12_SocketClosedAfterHandlers == closed_at # <<>> => closed_at[1] = "idle"

(* C16: once close_server has signalled shutdown the thread leaves the      *)
(* loop of serve_forever and never enters httpd.serve_forever() again.      *)
(* The code enters it again: every return of serve_forever is followed by   *)
(* another call.                                                            *)
C16_ServeForeverNotReentered == Len(entered_at) <= 1

Failed(s) == s.outcome = "exception" \/ s.request.path \notin ApiPaths

(* C17: while close_server has not been called, the thread is alive and the *)
(* socket listening whatever the requests handled so far did, the loop is   *)
(* ready to accept the next connection once a handler has returned or       *)
(* raised, and a /api/predict/ request that follows a failed request and is *)
(* handled without an exception is answered 200 with                        *)
(* postprocess(predict(preprocess(d))).                                     *)
C17_FailureDoesNotStopServer ==
    /\ closer_pc = "ready" =>
         /\ thread_pc # "dead"
         /\ httpd.socket = "listening"
         /\ (pc = "idle" /\ entered_at # <<>>) => thread_pc \in {"handling", "serving"}
    /\ (/\ Handled(PREDICT_PATH, "ok")
        /\ Len(served) >= 2
        /\ Failed(served[Len(served) - 1]))
         => /\ response.status = 200
            /\ Len(response.body) = 1
            /\ json_parse(response.body[1]).data
                 = postprocess(predict(preprocess(request.body.data)))

(* A request whose handler raised, then a /api/predict/ answered. *)
C17_Witness ==
    /\ Handled(PREDICT_PATH, "ok")
    /\ Len(served) = 2
    /\ served[1].outcome = "exception"
    /\ served[1].request.path \in ApiPaths
    /\ closer_pc = "ready"
    /\ thread_pc = "serving"

----------------------------------------------------------------------------
(* Properties of the handler's failures and of the saliency *)

(* C13: a POST to an API route whose handling fails is answered with an     *)
(* error status, 400 when the body is no JSON, and never with 200.  The     *)
(* code has sent 200 and the headers before it reads the body.              *)
C13_FailureIsErrorResponse ==
    (/\ pc = "idle"
     /\ served # <<>>
     /\ served[Len(served)].outcome = "exception"
     /\ request.path \in ApiPaths)
      => /\ response.status \notin {0, 200}
         /\ (request.body.length /\ ~request.body.json) => response.status = 400

(* C18: the response of /api/predict/ has a saliency field exactly when the *)
(* interface declares a saliency function; the field is the list form of    *)
(* saliency(model_obj, processed_input, prediction) for the pre-processed   *)
(* input and the raw prediction of the request; and the saliency function   *)
(* is called at most once, with these arguments, and never when none is     *)
(* declared or on another route.                                            *)
C18_SaliencyIffDeclared ==
    LET d == request.body.data
        processed_input == preprocess(d)
        prediction == predict(processed_input)
    IN /\ Handled(PREDICT_PATH, "ok") =>
            LET output == json_parse(response.body[1]) IN
            /\ ("saliency" \in DOMAIN output) <=> saliency_declared
            /\ saliency_declared =>
                 /\ output.saliency
                      = tolist(saliency("model_obj", processed_input, prediction))
                 /\ CallsTo({"saliency"}) = << <<"saliency", processed_input, prediction>> >>
       /\ (~saliency_declared \/ request.path # PREDICT_PATH) => CallsTo({"saliency"}) = <<>>
       /\ Len(CallsTo({"saliency"})) <= 1

C18_Witness ==
    /\ Handled(PREDICT_PATH, "ok")
    /\ saliency_declared
    /\ "saliency" \in DOMAIN json_parse(response.body[1])
    /\ Len(served) = 2
    /\ served[1].request.path = PREDICT_PATH

----------------------------------------------------------------------------
(* Properties of the flag log *)

IsPrefix(a, b) == Len(a) <= Len(b) /\ SubSeq(b, 1, Len(a)) = a

(* The records of the current request are its own, in its order. *)
OwnRecords ==
    /\ IsLines(Appended)
    /\ IF request.path = FLAG_PATH
         THEN Appended \in {<<>>, <<json_dumps(FlagRecord(request)), NEWLINE>>}
       ELSE IF request.path = ROTATION_PATH
         THEN /\ LineCount(Appended) <= 9
              /\ \A k \in 1..LineCount(Appended) :
                   /\ Line(Appended, k).message = RotationMessages[k]
                   /\ Line(Appended, k).input
                        = save_to_file(flag_dir, rotate(ImageOf(request), RotationAngles[k]))
       ELSE IF request.path = LIGHTING_PATH
         THEN /\ LineCount(Appended) <= 9
              /\ \A k \in 1..LineCount(Appended) :
                   /\ Line(Appended, k).message = LightingMessages[k]
                   /\ Line(Appended, k).input
                        = save_to_file(flag_dir, enhance(ImageOf(request), k - 1, 4))
       ELSE Appended = <<>>

(* C15: a connection is accepted only when no handler is executing, nothing *)
(* is written to the log between a handler's return and the next accept,    *)
(* and the log is at every moment what it was when the current request was  *)
(* accepted followed by whole records of the current request alone, in the  *)
(* request's order.                                                         *)
C15_OneRequestAtATime ==
    /\ [](IsPrefix(fs_at_accept.content, flag_file) /\ OwnRecords)
    /\ [][/\ pc' = "do_POST" => (pc = "idle" /\ Len(served') = Len(served))
          /\ pc = "idle" => flag_file' = flag_file
          /\ Len(served') > Len(served) => (pc # "idle" /\ pc' = "idle")]_vars

(* A rotation's nine records behind the record of an earlier request. *)
C15_Witness ==
    /\ Handled(ROTATION_PATH, "ok")
    /\ Len(served) = 2
    /\ served[1].request.path = FLAG_PATH
    /\ LineCount(fs_at_accept.content) = 1
    /\ LineCount(flag_file) = 10

(* C19: no step shortens or rewrites the log or removes it or its           *)
(* directory; the log is whole lines at every moment; and a request whose   *)
(* handler raised has left the records appended before the failure and      *)
(* nothing else: none for /api/flag/, and for an auto route one record for  *)
(* each iteration that was completed.                                       *)
C19_LogIsAppendOnly ==
    /\ [](/\ IsLines(flag_file)
          /\ (flag_file # <<>> => flag_file_exists)
          /\ (flag_file_exists => flag_dir_exists)
          /\ (pc = "idle" /\ served # <<>> /\ served[Len(served)].outcome = "exception")
               => /\ IsPrefix(fs_at_accept.content, flag_file)
                  /\ LineCount(Appended)
                       = IF request.path \in {ROTATION_PATH, LIGHTING_PATH}
                                /\ CallsTo({"predict"}) # <<>>
                           THEN Len(CallsTo({"predict"})) - 1
                           ELSE 0)
    /\ [][/\ IsPrefix(flag_file, flag_file')
          /\ (flag_file_exists => flag_file_exists')
          /\ (flag_dir_exists => flag_dir_exists')]_vars

(* A rotation that raised in its third iteration, behind an earlier record. *)
C19_Witness ==
    /\ pc = "idle"
    /\ Len(served) = 2
    /\ served[1].request.path = FLAG_PATH
    /\ served[2].request.path = ROTATION_PATH
    /\ served[2].outcome = "exception"
    /\ Len(CallsTo({"predict"})) = 3
    /\ LineCount(flag_file) = 3

----------------------------------------------------------------------------
(* Properties of setup_tunnel *)

(* C14: a call of setup_tunnel ends in one of two ways: it returns the URL  *)
(* create_tunnel made of the first element of the broker's array, or it     *)
(* raises one RuntimeError that carries the cause's message; a broker       *)
(* answer that is not 200, an unreachable broker, a timeout, a malformed    *)
(* body and a failed negotiation each raise.  The code returns None for an  *)
(* answer with a 2xx status other than 200.                                 *)
C14_TunnelReturnsUrlOrRaises ==
    /\ tn_pc = "returned" =>
         /\ tn_env.broker = <<"status", 200>>
         /\ tn_env.body = <<"array", "payload">>
         /\ tn_env.tunnel = "url"
         /\ tn_result = <<create_tunnel("payload", LOCALHOST_NAME, tn_env.port)>>
         /\ tn_error = <<>>
    /\ tn_pc = "raised" =>
         /\ tn_result = <<>>
         /\ Len(tn_error) = 1
         /\ tn_error[1].type = "RuntimeError"
         /\ tn_error[1].message # ""

----------------------------------------------------------------------------
(* Properties of the server handles *)

PortOf(handle) == handle.server_address[2]

OpenHandles == {i \in 1..Len(handles) : handles[i].open}

(* C20: no two open handles are bound to one port; the ports this process's *)
(* servers hold are those of the open handles, so that the port of a closed *)
(* handle is free again; the port start_simple_server returns is the port   *)
(* of the handle it returns, which is open; and, no other process binding   *)
(* or releasing a port meanwhile, it is the lowest port of the window that  *)
(* neither another process nor an open handle held when the call began, a   *)
(* port released by close_server included.                                  *)
C20_OneHandlePerPort ==
    /\ \A i, j \in OpenHandles : i # j => PortOf(handles[i]) # PortOf(handles[j])
    /\ servers = {PortOf(handles[i]) : i \in OpenHandles}
    /\ \A i \in 1..Len(handles) : PortOf(handles[i]) \in Ports
    /\ gp_pc = "started" =>
         /\ started[2].server_address = <<LOCALHOST_NAME, started[1]>>
         /\ Len(handles) \in OpenHandles
         /\ PortOf(handles[Len(handles)]) = started[1]
         /\ ~gp.disturbed => started[1] = Min(FreeAtCall)

(* The second server is started on the port of the first, which was closed. *)
C20_Witness ==
    /\ gp_pc = "started"
    /\ ~gp.disturbed
    /\ Len(handles) = 2
    /\ ~handles[1].open
    /\ PortOf(handles[1]) = INITIAL_PORT_VALUE + 1
    /\ started[1] = INITIAL_PORT_VALUE + 1
    /\ occupied = {INITIAL_PORT_VALUE}

====
